---------------------------- MODULE Spec2Model ----------------------------
(***************************************************************************)
(* The radial pattern generators of IllusoryMotionStimuli:                 *)
(*   generate_fraser_wilcox1/2/3   (src/fraser_wilcox{1,2,3}.py)           *)
(*   generate_rotating_snake       (src/rotating_snake.py)                 *)
(* One call of a generator is one behaviour: argument resolution, figure   *)
(* set-up, the ring loop adding one patch per iteration, and the save.     *)
(*                                                                         *)
(* Python's floats are modelled as exact rationals <<n, d>> in lowest      *)
(* terms with d > 0, so two values are equal iff the tuples are equal.     *)
(* Rounding of IEEE doubles is therefore not represented.                  *)
(***************************************************************************)
EXTENDS Integers, Sequences, FiniteSets, TLC

\* ------------------------------------------------------------- bounds
MaxRings == 2
MaxRepeats == 2
MaxSteps == 4
MaxShift == 2

\* ------------------------------------------------- rational arithmetic
Abs(x) == IF x < 0 THEN -x ELSE x

RECURSIVE GCD(_, _)
GCD(a, b) == IF b = 0 THEN a ELSE GCD(b, a % b)

\* n / d for d # 0, in lowest terms with a positive denominator
Q(n, d) ==
    LET g == GCD(Abs(n), Abs(d))
        s == IF d < 0 THEN -1 ELSE 1
    IN  <<(s * n) \div g, (s * d) \div g>>

QInt(n) == <<n, 1>>
QNeg(a) == <<-a[1], a[2]>>
\* the sum over the least common denominator, so that products stay small
QAdd(a, b) ==
    LET g == GCD(a[2], b[2])
    IN  Q(a[1] * (b[2] \div g) + b[1] * (a[2] \div g), (a[2] \div g) * b[2])
QSub(a, b) == QAdd(a, QNeg(b))
\* the product, cross-reduced before multiplying
QMul(a, b) ==
    LET g1 == GCD(Abs(a[1]), b[2])
        g2 == GCD(Abs(b[1]), a[2])
    IN  Q((a[1] \div g1) * (b[1] \div g2), (a[2] \div g2) * (b[2] \div g1))
QLe(a, b) == a[1] * b[2] <= b[1] * a[2]
QLt(a, b) == a[1] * b[2] < b[1] * a[2]

\* np.clip(x, lo, hi)
clip(x, lo, hi) == IF QLt(x, lo) THEN lo ELSE IF QLt(hi, x) THEN hi ELSE x

Gray(l) == <<l, l, l>>
InUnit(x) == QLe(QInt(0), x) /\ QLe(x, QInt(1))

\* ---------------------------------------------- rotating snake tables
\* custom_colors
custom_colors ==
    [blue   |-> <<Q(153, 2550), Q(16575, 255000), QInt(1)>>,
     yellow |-> <<Q(1836, 2550), Q(1887, 2550), QInt(0)>>,
     red    |-> <<Q(21675, 25500), QInt(0), QInt(0)>>,
     green  |-> <<QInt(0), QInt(1), QInt(0)>>]

default_luminance_levels == <<QInt(1), Q(2, 3), QInt(0), Q(1, 3)>>

ColorModes == {"grayscale", "blue_yellow", "red_green"}

\* the keys of every color_mappings[mode]
CanonicalLevels == {QInt(1), Q(2, 3), QInt(0), Q(1, 3)}

\* color_mappings[mode][level], for mode in ColorModes, level in CanonicalLevels
color_mappings(mode, level) ==
    CASE mode = "grayscale" ->
           (CASE level = QInt(1) -> <<QInt(1), QInt(1), QInt(1)>>
              [] level = Q(2, 3) -> <<Q(8, 10), Q(8, 10), Q(8, 10)>>
              [] level = QInt(0) -> <<QInt(0), QInt(0), QInt(0)>>
              [] level = Q(1, 3) -> <<Q(33, 100), Q(33, 100), Q(33, 100)>>)
      [] mode = "blue_yellow" ->
           (CASE level = QInt(1) -> <<QInt(1), QInt(1), QInt(1)>>
              [] level = Q(2, 3) -> custom_colors.yellow
              [] level = QInt(0) -> <<QInt(0), QInt(0), QInt(0)>>
              [] level = Q(1, 3) -> custom_colors.blue)
      [] mode = "red_green" ->
           (CASE level = QInt(1) -> <<QInt(1), QInt(1), QInt(1)>>
              [] level = Q(2, 3) -> custom_colors.green
              [] level = QInt(0) -> <<QInt(0), QInt(0), QInt(0)>>
              [] level = Q(1, 3) -> custom_colors.red)


\* ------------------------------------------------------ call arguments
None == [some |-> FALSE, val |-> <<>>]
Some(v) == [some |-> TRUE, val |-> v]

Variants == {"fraser_wilcox1", "fraser_wilcox2", "fraser_wilcox3", "rotating_snake"}
Directions == {"clockwise", "counterclockwise"}

\* (bg_luminance, max_lum_cd_m2) pairs a caller may pass
LumPairs == {<<30, 100>>, <<120, 50>>, <<30, 0>>}

FW1Levels == {<<QInt(0), Q(3, 10)>>, <<QInt(0), Q(3, 2)>>}
FW2Levels == {<<QInt(1), Q(2, 3), QInt(0), Q(1, 3)>>,
              <<QInt(1), QInt(0), QInt(0), QInt(1)>>}
FW3Levels == {None, Some(<<QInt(0), Q(1, 3), Q(2, 3), QInt(1)>>)}

SnakeModes == ColorModes \cup {"sepia"}
SnakeOrders ==
    {None, Some(<<>>),
     Some(<<custom_colors.red, custom_colors.green, custom_colors.blue>>)}
SnakeLuminances == {None, Some(<<QInt(0), QInt(1)>>), Some(<<Q(1, 2)>>)}
SnakeInnerRadii == {QInt(0), Q(5, 100000), QInt(1), Q(3, 2)}

\* the arguments of one call; a parameter the variant does not have is fixed
Args(v, nr, nrep, ns, sp, lv, lp, dir, mode, eo, lvals, mir) ==
    [variant |-> v, num_rings |-> nr, num_repeats |-> nrep, num_steps |-> ns,
     shift_per_ring |-> sp, luminance_levels |-> lv,
     bg_luminance |-> lp[1], max_lum_cd_m2 |-> lp[2],
     rotation_direction |-> dir, color_mode |-> mode, element_order |-> eo,
     luminance_values |-> lvals, min_inner_radius |-> mir]

FW1Calls ==
    {Args("fraser_wilcox1", nr, nrep, ns, sp, Some(lv), lp, dir,
          "grayscale", None, None, QInt(0)) :
        nr \in 0..MaxRings, nrep \in 0..MaxRepeats, ns \in 0..MaxSteps,
        sp \in 0..MaxShift, lv \in FW1Levels, lp \in LumPairs, dir \in Directions}

FW2Calls ==
    {Args("fraser_wilcox2", nr, nrep, ns, sp, Some(lv), lp, dir,
          "grayscale", None, None, QInt(0)) :
        nr \in 0..MaxRings, nrep \in 0..MaxRepeats, ns \in 0..MaxSteps,
        sp \in 0..MaxShift, lv \in FW2Levels, lp \in LumPairs, dir \in Directions}

FW3Calls ==
    {Args("fraser_wilcox3", nr, nrep, ns, 0, lv, lp, dir,
          "grayscale", None, None, QInt(0)) :
        nr \in 0..MaxRings, nrep \in 0..MaxRepeats, ns \in 0..MaxSteps,
        lv \in FW3Levels, lp \in LumPairs, dir \in Directions}

SnakeCalls ==
    {Args("rotating_snake", nr, nrep, 0, sp, None, <<30, 100>>, dir,
          mode, eo, lvals, mir) :
        nr \in 0..MaxRings, nrep \in 0..MaxRepeats, sp \in 0..MaxShift,
        dir \in Directions, mode \in SnakeModes, eo \in SnakeOrders,
        lvals \in SnakeLuminances, mir \in SnakeInnerRadii}

Calls == FW1Calls \cup FW2Calls \cup FW3Calls \cup SnakeCalls

IsFW(c) == c.variant # "rotating_snake"

\* --------------------------------------------------------------- state
VARIABLES
    cfg,             \* the call's arguments
    pc,              \* "start", "setup", "ring", "seg", "done", "error"
    err,             \* the exception that ended the call
    fig,             \* plt.subplots has created the figure
    bg,              \* bg_luminance_norm
    lum,             \* luminance_norm / luminance_sequence / luminance_levels
    color_sequence,  \* rotating snake: resolved colors of the levels
    element_order,   \* rotating snake: the sequence tiled around a ring
    ring_radii,      \* rotating snake: np.linspace(min_inner_radius, 1, n+1)
    ring, repeat, i, \* loop indices
    angle_step,      \* 360 / total_segments of the current ring
    shift,           \* the current ring's phase shift
    canvas           \* the patches added to the axes, in add order

vars == <<cfg, pc, err, fig, bg, lum, color_sequence, element_order,
          ring_radii, ring, repeat, i, angle_step, shift, canvas>>

NoError == [type |-> "", value |-> "", accepted |-> {}]
ZeroDivisionError == [type |-> "ZeroDivisionError", value |-> "", accepted |-> {}]
KeyError == [type |-> "KeyError", value |-> "", accepted |-> {}]
\* ValueError(f"Invalid color mode: {color_mode}. Choose from {list(...)}")
InvalidColorMode(mode) ==
    [type |-> "ValueError", value |-> mode, accepted |-> ColorModes]

Init ==
    /\ cfg \in Calls
    /\ pc = "start"
    /\ err = NoError
    /\ fig = FALSE
    /\ bg = QInt(0)
    /\ lum = <<>>
    /\ color_sequence = <<>>
    /\ element_order = <<>>
    /\ ring_radii = <<>>
    /\ ring = 0
    /\ repeat = 0
    /\ i = 0
    /\ angle_step = QInt(0)
    /\ shift = 0
    /\ canvas = <<>>

Raise(e) == pc' = "error" /\ err' = e

\* --------------------------------------------------- argument resolution
\* bg_luminance_norm = np.clip(bg_luminance / max_lum_cd_m2, 0, 1)
bg_luminance_norm(c) ==
    clip(Q(c.bg_luminance, c.max_lum_cd_m2), QInt(0), QInt(1))

\* fraser_wilcox3: the default luminance_sequence, or the caller's levels
luminance_sequence(c) ==
    IF c.luminance_levels.some
    THEN c.luminance_levels.val
    ELSE <<Q(1, 1000 * c.max_lum_cd_m2), Q(30, c.max_lum_cd_m2),
           Q(40, c.max_lum_cd_m2), Q(70, c.max_lum_cd_m2)>>

\* rotating snake: luminance_values if luminance_values else the default
luminance_levels(c) ==
    IF c.luminance_values.some /\ c.luminance_values.val # <<>>
    THEN c.luminance_values.val
    ELSE default_luminance_levels

\* [color_mappings[color_mode][level] for level in luminance_levels]
ColorSequence(c) ==
    [j \in 1..Len(luminance_levels(c)) |->
        color_mappings(c.color_mode, luminance_levels(c)[j])]

\* seq[::-1]
Reversed(seq) == [j \in 1..Len(seq) |-> seq[Len(seq) + 1 - j]]

\* element_order after the None default and the clockwise reversal
ElementOrder(c) ==
    LET given == IF c.element_order.some THEN c.element_order.val
                 ELSE ColorSequence(c)
    IN  IF c.rotation_direction = "clockwise" THEN Reversed(given) ELSE given

\* the statements before plt.subplots
Resolve ==
    /\ pc = "start"
    /\ CASE cfg.variant = "fraser_wilcox1" ->
              IF cfg.max_lum_cd_m2 = 0
              THEN Raise(ZeroDivisionError)
                   /\ UNCHANGED <<bg, lum, color_sequence, element_order>>
              ELSE /\ bg' = bg_luminance_norm(cfg)
                   /\ lum' = cfg.luminance_levels.val
                   /\ pc' = "setup"
                   /\ UNCHANGED <<err, color_sequence, element_order>>
         [] cfg.variant = "fraser_wilcox2" ->
              /\ lum' = cfg.luminance_levels.val
              /\ pc' = "setup"
              /\ UNCHANGED <<err, bg, color_sequence, element_order>>
         [] cfg.variant = "fraser_wilcox3" ->
              IF cfg.max_lum_cd_m2 = 0
              THEN Raise(ZeroDivisionError)
                   /\ UNCHANGED <<bg, lum, color_sequence, element_order>>
              ELSE /\ bg' = bg_luminance_norm(cfg)
                   /\ lum' = luminance_sequence(cfg)
                   /\ pc' = "setup"
                   /\ UNCHANGED <<err, color_sequence, element_order>>
         [] cfg.variant = "rotating_snake" ->
              IF cfg.color_mode \notin ColorModes
              THEN Raise(InvalidColorMode(cfg.color_mode))
                   /\ UNCHANGED <<bg, lum, color_sequence, element_order>>
              ELSE IF \E j \in 1..Len(luminance_levels(cfg)) :
                         luminance_levels(cfg)[j] \notin CanonicalLevels
              THEN Raise(KeyError)
                   /\ lum' = luminance_levels(cfg)
                   /\ UNCHANGED <<bg, color_sequence, element_order>>
              ELSE /\ lum' = luminance_levels(cfg)
                   /\ color_sequence' = ColorSequence(cfg)
                   /\ element_order' = ElementOrder(cfg)
                   /\ pc' = "setup"
                   /\ UNCHANGED <<err, bg>>
    /\ UNCHANGED <<cfg, fig, ring_radii, ring, repeat, i, angle_step, shift, canvas>>

\* ----------------------------------------------------------- figure set-up
\* faulty variant: the endpoint excluded (the step taken over n + 1)
linspaceOpenEnd(start, n) ==
    [j \in 1..(n + 1) |->
        QAdd(start, QMul(QInt(j - 1), QMul(QSub(QInt(1), start), Q(1, n + 1))))]

\* np.linspace(start, 1.0, n + 1), 1-indexed
linspace(start, n) ==
    [j \in 1..(n + 1) |->
        IF n = 0 THEN start
        ELSE QAdd(start, QMul(QInt(j - 1), QMul(QSub(QInt(1), start), Q(1, n))))]

Wedge(r, inner, outer, t, color) ==
    [kind |-> "wedge", ring |-> r, inner_radius |-> inner, outer_radius |-> outer,
     theta1 |-> t[1], theta2 |-> t[2], color |-> color]

\* patches.Circle((0, 0), min_inner_radius, color=(1, 1, 1))
center_circle(c) ==
    [kind |-> "circle", ring |-> -1, inner_radius |-> QInt(0),
     outer_radius |-> c.min_inner_radius,
     theta1 |-> QInt(0), theta2 |-> QInt(360),
     color |-> <<QInt(1), QInt(1), QInt(1)>>]

\* faulty variant: the centre circle drawn whatever min_inner_radius is
SnakePreludeAlways(c) == <<center_circle(c)>>

\* the patches the rotating snake adds before its ring loop
SnakePrelude(c) ==
    IF QLt(QInt(0), c.min_inner_radius) THEN <<center_circle(c)>> ELSE <<>>

\* plt.subplots and the statements up to the ring loop
SetupFigure ==
    /\ pc = "setup"
    /\ fig' = TRUE
    /\ CASE cfg.variant \in {"fraser_wilcox1", "fraser_wilcox3"} ->
              /\ pc' = "ring"
              /\ UNCHANGED <<err, ring_radii, canvas>>
         [] cfg.variant = "fraser_wilcox2" ->
              \* set_facecolor((bg_luminance / max_lum_cd_m2, ...))
              IF cfg.max_lum_cd_m2 = 0
              THEN Raise(ZeroDivisionError) /\ UNCHANGED <<ring_radii, canvas>>
              ELSE pc' = "ring" /\ UNCHANGED <<err, ring_radii, canvas>>
         [] cfg.variant = "rotating_snake" ->
              /\ ring_radii' = linspace(cfg.min_inner_radius, cfg.num_rings)
              /\ canvas' = canvas \o SnakePrelude(cfg)
              /\ pc' = "ring"
              /\ UNCHANGED err
    /\ UNCHANGED <<cfg, bg, lum, color_sequence, element_order,
                   ring, repeat, i, angle_step, shift>>

\* ---------------------------------------------------------- the ring loop
\* total_segments = num_repeats * num_steps; num_segments = len(element_order) * num_repeats
total_segments(c, order) ==
    IF IsFW(c) THEN c.num_repeats * c.num_steps ELSE Len(order) * c.num_repeats

\* fraser_wilcox1: shift = (ring * shift_per_ring) % num_steps
FW1Shift(c, r) == (r * c.shift_per_ring) % c.num_steps

\* fraser_wilcox2: shift = (ring * shift_per_ring * num_steps // 2) % num_steps
FW2Shift(c, r) == ((r * c.shift_per_ring * c.num_steps) \div 2) % c.num_steps

\* faulty variant: the shift grows with the ring index
ring_shiftAscending(c, r, order) == (r * c.shift_per_ring) % Len(order)

\* rotating snake: ring_shift = (num_rings - ring_idx - 1) * shift_per_ring % len(element_order)
ring_shift(c, r, order) ==
    ((c.num_rings - r - 1) * c.shift_per_ring) % Len(order)

\* element_order[ring_shift:] + element_order[:ring_shift]
shifted_sequence(order, s) ==
    SubSeq(order, s + 1, Len(order)) \o SubSeq(order, 1, s)

RingShift(c, r, order) ==
    CASE c.variant = "fraser_wilcox1" -> FW1Shift(c, r)
      [] c.variant = "fraser_wilcox2" -> FW2Shift(c, r)
      [] c.variant = "fraser_wilcox3" -> 0
      [] c.variant = "rotating_snake" -> ring_shift(c, r, order)

\* the body of "for ring in range(num_rings)" up to the segment loop
RingHeader ==
    /\ pc = "ring"
    /\ ring < cfg.num_rings
    /\ IF total_segments(cfg, element_order) = 0
       THEN Raise(ZeroDivisionError) /\ UNCHANGED <<angle_step, shift>>
       ELSE /\ angle_step' = Q(360, total_segments(cfg, element_order))
            /\ shift' = RingShift(cfg, ring, element_order)
            /\ pc' = "seg"
            /\ UNCHANGED err
    /\ repeat' = 0
    /\ i' = 0
    /\ UNCHANGED <<cfg, fig, bg, lum, color_sequence, element_order,
                   ring_radii, ring, canvas>>

\* faulty variant: the repeat offset counted in repeats instead of steps
SliceIndexByRepeats(c, rep, step) ==
    IF IsFW(c) THEN step + rep * c.num_repeats ELSE step

\* the slice index of iteration (repeat, i): i + repeat * num_steps, or i
SliceIndex(c, rep, step) ==
    IF IsFW(c) THEN step + rep * c.num_steps ELSE step

\* theta1 = k * angle_step; theta2 = (k + 1) * angle_step
Span(k, step) == <<QMul(QInt(k), step), QMul(QInt(k + 1), step)>>

\* faulty variant: the angles negated without exchanging them
MirrorNoSwap(t) == <<QNeg(t[1]), QNeg(t[2])>>

\* theta1, theta2 = -theta2, -theta1
Mirror(t) == <<QNeg(t[2]), QNeg(t[1])>>

\* the angle pair handed to patches.Wedge
Theta(c, k, step) ==
    IF IsFW(c) /\ c.rotation_direction = "clockwise"
    THEN Mirror(Span(k, step))
    ELSE Span(k, step)

\* inner_radius = ring / num_rings; outer_radius = (ring + 1) / num_rings
FWRadii(c, r) == <<Q(r, c.num_rings), Q(r + 1, c.num_rings)>>

\* inner_radius = ring_radii[ring_idx]; outer_radius = ring_radii[ring_idx + 1]
SnakeRadii(radii, r) == <<radii[r + 1], radii[r + 2]>>

\* faulty variant: the ring's shift left out of the gradient
FW1ColorNoShift(c, l, b, r, rep, step, sh) ==
    IF (r + rep) % 2 = 0
    THEN LET grad == Q(step, c.num_steps)
         IN  Gray(clip(QAdd(l[1], QMul(grad, QSub(l[2], l[1]))), QInt(0), QInt(1)))
    ELSE Gray(b)

\* fraser_wilcox1: gradient on even (ring + repeat), background on odd
FW1Color(c, l, b, r, rep, step, sh) ==
    IF (r + rep) % 2 = 0
    THEN LET grad == Q(step + sh, c.num_steps)
         IN  Gray(clip(QAdd(l[1], QMul(grad, QSub(l[2], l[1]))), QInt(0), QInt(1)))
    ELSE Gray(b)

\* fraser_wilcox2: black-to-dim-gray on even, white-to-light-gray on odd
FW2Color(c, l, r, rep, step, sh) ==
    LET grad == Q(step + sh, c.num_steps)
    IN  IF (rep + r) % 2 = 0
        THEN Gray(QAdd(l[3], QMul(grad, QSub(l[4], l[3]))))
        ELSE Gray(QSub(l[1], QMul(grad, QSub(l[1], l[2]))))

\* fraser_wilcox3: background on even rings, gradient on odd rings
FW3Color(c, l, b, r, step) ==
    IF r % 2 = 0
    THEN Gray(b)
    ELSE Gray(QAdd(l[1], QMul(Q(step, c.num_steps), QSub(l[4], l[1]))))

\* rotating snake: shifted_sequence[i % len(shifted_sequence)]
SnakeColor(order, sh, step) ==
    shifted_sequence(order, sh)[(step % Len(order)) + 1]

\* the wedge built by iteration (r, rep, st) of the loops, from the values
\* the call has resolved: levels l, background b, element order, ring radii,
\* angle step and the ring's shift
NextWedge(c, l, b, order, radii, step_angle, sh, r, rep, st) ==
    LET k == SliceIndex(c, rep, st)
        t == Theta(c, k, step_angle)
        rad == IF IsFW(c) THEN FWRadii(c, r) ELSE SnakeRadii(radii, r)
        color ==
          CASE c.variant = "fraser_wilcox1" -> FW1Color(c, l, b, r, rep, st, sh)
            [] c.variant = "fraser_wilcox2" -> FW2Color(c, l, r, rep, st, sh)
            [] c.variant = "fraser_wilcox3" -> FW3Color(c, l, b, r, st)
            [] c.variant = "rotating_snake" -> SnakeColor(order, sh, st)
    IN  Wedge(r, rad[1], rad[2], t, color)

\* one iteration of the segment loop: ax.add_patch(wedge)
DrawWedge ==
    /\ pc = "seg"
    /\ IF IsFW(cfg) THEN repeat < cfg.num_repeats
       ELSE i < total_segments(cfg, element_order)
    /\ canvas' = Append(canvas,
                        NextWedge(cfg, lum, bg, element_order, ring_radii,
                                  angle_step, shift, ring, repeat, i))
    /\ IF IsFW(cfg) /\ i + 1 = cfg.num_steps
       THEN repeat' = repeat + 1 /\ i' = 0
       ELSE repeat' = repeat /\ i' = i + 1
    /\ UNCHANGED <<cfg, pc, err, fig, bg, lum, color_sequence, element_order,
                   ring_radii, ring, angle_step, shift>>

\* the segment loop is exhausted: next ring
RingDone ==
    /\ pc = "seg"
    /\ IF IsFW(cfg) THEN repeat >= cfg.num_repeats
       ELSE i >= total_segments(cfg, element_order)
    /\ ring' = ring + 1
    /\ pc' = "ring"
    /\ UNCHANGED <<cfg, err, fig, bg, lum, color_sequence, element_order,
                   ring_radii, repeat, i, angle_step, shift, canvas>>

\* the ring loop is exhausted: plt.savefig, plt.close
Save ==
    /\ pc = "ring"
    /\ ring >= cfg.num_rings
    /\ pc' = "done"
    /\ UNCHANGED <<cfg, err, fig, bg, lum, color_sequence, element_order,
                   ring_radii, ring, repeat, i, angle_step, shift, canvas>>

Next == Resolve \/ SetupFigure \/ RingHeader \/ DrawWedge \/ RingDone \/ Save

Spec == Init /\ [][Next]_vars

\* ------------------------------------------- a call as a function of its arguments
\* the levels, background and element order a call resolves
ResolvedLum(c) ==
    CASE c.variant \in {"fraser_wilcox1", "fraser_wilcox2"} -> c.luminance_levels.val
      [] c.variant = "fraser_wilcox3" -> luminance_sequence(c)
      [] c.variant = "rotating_snake" -> luminance_levels(c)

ResolvedBg(c) ==
    IF c.variant \in {"fraser_wilcox1", "fraser_wilcox3"}
    THEN bg_luminance_norm(c) ELSE QInt(0)

ResolvedOrder(c) == IF IsFW(c) THEN <<>> ELSE ElementOrder(c)

\* the wedge a call with arguments c adds in iteration (r, rep, st)
CallWedge(c, r, rep, st) ==
    LET order == ResolvedOrder(c)
    IN  NextWedge(c, ResolvedLum(c), ResolvedBg(c), order,
                  linspace(c.min_inner_radius, c.num_rings),
                  Q(360, total_segments(c, order)),
                  RingShift(c, r, order), r, rep, st)

\* ---------------------------------------------------- reading the canvas
IsWedge(p) == p.kind = "wedge"
Wedges == SelectSeq(canvas, IsWedge)
WedgesOf(r) == SelectSeq(canvas, LAMBDA p : p.kind = "wedge" /\ p.ring = r)
Colors(seq) == [j \in 1..Len(seq) |-> seq[j].color]
\* ring r has left its segment loop
RingComplete(r) == r < ring
\* the call's element sequence length (rotating snake) as the caller gave it
GivenOrder == IF cfg.element_order.some THEN cfg.element_order.val ELSE color_sequence
\* slices per ring according to the arguments
SlicesPerRing ==
    IF IsFW(cfg) THEN cfg.num_repeats * cfg.num_steps
    ELSE Len(GivenOrder) * cfg.num_repeats

\* the resolved values kept in the state are those of the arguments
ResolvedAgree ==
    pc \in {"setup", "ring", "seg", "done"} =>
        /\ lum = ResolvedLum(cfg)
        /\ bg = ResolvedBg(cfg)
        /\ element_order = ResolvedOrder(cfg)

\* ================================================================ claims

\* the angle pair of a drawn wedge before the clockwise mirroring
Unmirrored(w) ==
    IF IsFW(cfg) /\ cfg.rotation_direction = "clockwise"
    THEN <<QNeg(w.theta2), QNeg(w.theta1)>>
    ELSE <<w.theta1, w.theta2>>

\* C1: in every variant the wedges of one ring, before mirroring, are the
\* slices k = 0 .. total_segments-1 in order, slice k spanning
\* [k*360/total_segments, (k+1)*360/total_segments): every slice once,
\* neighbours sharing an endpoint, the first starting at 0 and the last ending
\* at 360, and total_segments * angle_step = 360.
C1_RingTiling ==
    \A r \in 0..(cfg.num_rings - 1) :
        LET W == WedgesOf(r)
            n == SlicesPerRing
        IN  /\ Len(W) > 0 => (cfg.num_repeats >= 1 /\ n >= 1)
            /\ Len(W) <= n
            /\ \A j \in 1..Len(W) :
                 LET span == Unmirrored(W[j]) IN
                 /\ span = <<Q((j - 1) * 360, n), Q(j * 360, n)>>
                 /\ QLt(span[1], span[2])
                 /\ j < Len(W) => span[2] = Unmirrored(W[j + 1])[1]
            /\ Len(W) > 0 => /\ Unmirrored(W[1])[1] = QInt(0)
                             /\ QMul(QInt(n), angle_step) = QInt(360)
            /\ RingComplete(r) => /\ Len(W) = n
                                  /\ Unmirrored(W[n])[2] = QInt(360)

\* a clockwise Fraser-Wilcox call has finished two rings of at least six
\* slices each
C1_Witness ==
    /\ pc = "done"
    /\ cfg.num_rings = 2
    /\ SlicesPerRing >= 6
    /\ Len(Wedges) = 2 * SlicesPerRing
    /\ cfg.rotation_direction = "clockwise"
    /\ cfg.variant = "fraser_wilcox2"

\* ring list s rotated cyclically by k places towards higher slice indices
RotateRight(s, k) == [j \in 1..Len(s) |-> s[((j - 1 - k) % Len(s)) + 1]]

\* C4: rotating snake: slice x of ring r has the color of position
\* (x + ((num_rings-1-r) * shift_per_ring mod len)) mod len of the element
\* sequence, and the color list of ring r+1 is the color list of ring r
\* rotated cyclically by exactly shift_per_ring mod len places.
C4_PhaseShift ==
    cfg.variant = "rotating_snake" =>
        LET len == Len(element_order) IN
        /\ \A r \in 0..(cfg.num_rings - 1) :
             LET W == WedgesOf(r)
                 s == ((cfg.num_rings - 1 - r) * cfg.shift_per_ring) % len
             IN  \A j \in 1..Len(W) :
                     W[j].color = element_order[((j - 1 + s) % len) + 1]
        /\ \A r \in 0..(cfg.num_rings - 2) :
             RingComplete(r + 1) =>
                 Colors(WedgesOf(r + 1)) =
                     RotateRight(Colors(WedgesOf(r)), cfg.shift_per_ring % len)

\* two finished rings of a three-element sequence, repeated twice, shifted by
\* one element per ring
C4_Witness ==
    /\ cfg.variant = "rotating_snake"
    /\ pc = "done"
    /\ cfg.num_rings = 2
    /\ cfg.shift_per_ring = 1
    /\ cfg.num_repeats = 2
    /\ Len(element_order) = 3
    /\ Len(Wedges) = 12
    /\ Colors(WedgesOf(1)) # Colors(WedgesOf(0))

\* the map (theta1, theta2) -> (-theta2, -theta1) of the rotation-direction property
ClaimMirror(t) == <<QNeg(t[2]), QNeg(t[1])>>

RECURSIVE Rev(_)
\* the sequence s in reverse order
Rev(s) == IF s = <<>> THEN <<>> ELSE Append(Rev(Tail(s)), Head(s))

\* the q-th patch (q >= 1) that a call with arguments c adds to the canvas
CallPatch(c, q) ==
    LET order == ResolvedOrder(c)
        n == total_segments(c, order)
        pre == IF IsFW(c) THEN <<>> ELSE SnakePrelude(c)
        x == q - Len(pre) - 1
    IN  IF q <= Len(pre) THEN pre[q]
        ELSE IF IsFW(c)
        THEN CallWedge(c, x \div n, (x % n) \div c.num_steps, (x % n) % c.num_steps)
        ELSE CallWedge(c, x \div n, 0, x % n)

\* the counter-clockwise call a clockwise call is compared with
Counterpart ==
    IF IsFW(cfg)
    THEN [cfg EXCEPT !.rotation_direction = "counterclockwise"]
    ELSE [cfg EXCEPT !.rotation_direction = "counterclockwise",
                     !.element_order = Some(Rev(GivenOrder))]

\* C5: a clockwise Fraser-Wilcox call draws, patch for patch, what the
\* counter-clockwise call with the same arguments draws once every angle pair
\* is mapped (theta1, theta2) -> (-theta2, -theta1), colors and radii being
\* the same; a clockwise rotating snake call with element sequence E draws,
\* patch for patch, what the counter-clockwise call with reverse(E) draws.
C5_RotationDirection ==
    (cfg.rotation_direction = "clockwise" /\ pc \in {"ring", "seg", "done"}) =>
        LET other == Counterpart IN
        \A q \in 1..Len(canvas) :
            LET w == canvas[q]
                e == CallPatch(other, q)
            IN  IF IsFW(cfg)
                THEN /\ ClaimMirror(<<w.theta1, w.theta2>>) = <<e.theta1, e.theta2>>
                     /\ w.color = e.color
                     /\ w.inner_radius = e.inner_radius
                     /\ w.outer_radius = e.outer_radius
                     /\ w.ring = e.ring
                ELSE w = e

\* a finished clockwise rotating snake call: centre circle, two shifted rings
\* of a sequence that differs from its reverse
C5_Witness ==
    /\ cfg.rotation_direction = "clockwise"
    /\ pc = "done"
    /\ cfg.num_rings = 2
    /\ Len(Wedges) >= 6
    /\ cfg.variant = "rotating_snake"
    /\ cfg.shift_per_ring = 1
    /\ Rev(GivenOrder) # GivenOrder
    /\ QLt(QInt(0), cfg.min_inner_radius)

\* the gradient rule of the claim for the q-th wedge w of a Fraser-Wilcox
\* call: endpoints luminance_levels[0], luminance_levels[1], shift
\* (ring * shift_per_ring) mod num_steps, background on odd parity
GradientRule(q, w) ==
    LET n == cfg.num_repeats * cfg.num_steps
        x == (q - 1) % n
        rep == x \div cfg.num_steps
        st == x % cfg.num_steps
        sh == (w.ring * cfg.shift_per_ring) % cfg.num_steps
        Lstart == ResolvedLum(cfg)[1]
        Lend == ResolvedLum(cfg)[2]
        background == clip(Q(cfg.bg_luminance, cfg.max_lum_cd_m2), QInt(0), QInt(1))
    IN  IF (w.ring + rep) % 2 = 0
        THEN w.color =
               Gray(clip(QAdd(Lstart, QMul(Q(st + sh, cfg.num_steps), QSub(Lend, Lstart))),
                         QInt(0), QInt(1)))
        ELSE w.color = Gray(background)

\* C6 as stated, for the whole Fraser-Wilcox family: every wedge follows the
\* gradient rule (interpolation on even ring + repeat, background on odd).
C6_GradientAllVariants ==
    IsFW(cfg) => \A q \in 1..Len(canvas) : GradientRule(q, canvas[q])

\* C6 amended: in generate_fraser_wilcox1 every wedge follows the gradient
\* rule; with luminance_levels = [0, 0.3], num_steps = 4 and one repeat the
\* four wedges of ring 0 have luminances 0, 0.075, 0.15, 0.225.
C6_FW1Gradient ==
    cfg.variant = "fraser_wilcox1" =>
        /\ \A q \in 1..Len(canvas) : GradientRule(q, canvas[q])
        /\ ( /\ cfg.luminance_levels.val = <<QInt(0), Q(3, 10)>>
             /\ cfg.num_steps = 4
             /\ cfg.num_repeats = 1
             /\ RingComplete(0) ) =>
               Colors(WedgesOf(0)) =
                 <<Gray(QInt(0)), Gray(Q(75, 1000)), Gray(Q(15, 100)), Gray(Q(225, 1000))>>

\* the scenario of the claim, followed by an odd-parity ring with a shift
C6_Witness ==
    /\ cfg.variant = "fraser_wilcox1"
    /\ pc = "done"
    /\ cfg.luminance_levels.val = <<QInt(0), Q(3, 10)>>
    /\ cfg.num_steps = 4
    /\ cfg.num_repeats = 1
    /\ cfg.num_rings = 2
    /\ cfg.shift_per_ring = 1
    /\ cfg.max_lum_cd_m2 = 100
    /\ Len(canvas) = 8
    /\ canvas[5].color = Gray(Q(3, 10))

\* the lower end of the radial range: 0, or min_inner_radius in the snake
RadialLow == IF IsFW(cfg) THEN QInt(0) ELSE cfg.min_inner_radius

\* the bands are contiguous, of equal width, and run from RadialLow to 1
BandsPartition ==
    LET width == QMul(QSub(QInt(1), RadialLow), Q(1, cfg.num_rings))
        W == Wedges
    IN  \A q \in 1..Len(W) :
            LET w == W[q] IN
            /\ w.inner_radius = QAdd(RadialLow, QMul(QInt(w.ring), width))
            /\ w.outer_radius = QAdd(RadialLow, QMul(QInt(w.ring + 1), width))
            /\ QSub(w.outer_radius, w.inner_radius) = width
            /\ w.ring = cfg.num_rings - 1 => w.outer_radius = QInt(1)
            /\ w.ring = 0 => w.inner_radius = RadialLow

\* one ring of four slices drawn counter-clockwise: four wedges of 90
\* degrees, in listed order, at radii [RadialLow, 1], which is [0, 1] in the
\* Fraser-Wilcox variants and for min_inner_radius = 0
SingleRingScenario ==
    ( /\ cfg.num_rings = 1
      /\ cfg.num_repeats = 1
      /\ cfg.shift_per_ring = 0
      /\ cfg.rotation_direction # "clockwise"
      /\ RingComplete(0)
      /\ SlicesPerRing = 4 ) =>
        LET W == Wedges IN
        /\ Len(W) = 4
        /\ \A j \in 1..4 :
             /\ W[j].theta1 = QInt(90 * (j - 1))
             /\ W[j].theta2 = QInt(90 * j)
             /\ W[j].inner_radius = RadialLow
             /\ W[j].outer_radius = QInt(1)
             /\ ~IsFW(cfg) => W[j].color = GivenOrder[j]

\* C10 as stated: for every call with num_rings >= 1, whatever
\* min_inner_radius is, every band has inner_radius < outer_radius and the
\* equal bands partition [0,1] or [min_inner_radius,1]; and the single-ring
\* scenario.
C10_BandsAnyInnerRadius ==
    cfg.num_rings >= 1 =>
        /\ LET W == Wedges
           IN  \A q \in 1..Len(W) : QLt(W[q].inner_radius, W[q].outer_radius)
        /\ BandsPartition
        /\ SingleRingScenario

\* C10 amended: the bands are contiguous, of equal width and run from 0
\* (Fraser-Wilcox) or min_inner_radius (rotating snake) to 1; inner_radius <
\* outer_radius holds exactly when that lower end is below 1; and the
\* single-ring scenario.
C10_Bands ==
    cfg.num_rings >= 1 =>
        /\ LET W == Wedges
           IN  \A q \in 1..Len(W) :
                   QLt(W[q].inner_radius, W[q].outer_radius)
                       <=> QLt(RadialLow, QInt(1))
        /\ BandsPartition
        /\ SingleRingScenario

\* the default rotating snake sequence on a single ring from radius 0
C10_Witness ==
    /\ cfg.variant = "rotating_snake"
    /\ pc = "done"
    /\ cfg.num_rings = 1
    /\ cfg.num_repeats = 1
    /\ cfg.shift_per_ring = 0
    /\ cfg.rotation_direction # "clockwise"
    /\ cfg.min_inner_radius = QInt(0)
    /\ cfg.color_mode = "grayscale"
    /\ ~cfg.element_order.some
    /\ Len(Wedges) = 4
    /\ Wedges[2].color = Gray(Q(8, 10))

\* the statements before the ring loop raise nothing for arguments c
ArgumentsResolve(c) ==
    IF IsFW(c) THEN c.max_lum_cd_m2 # 0
    ELSE /\ c.color_mode \in ColorModes
         /\ \A j \in 1..Len(luminance_levels(c)) :
                luminance_levels(c)[j] \in CanonicalLevels

C2_ChannelsInUnit ==
    LET W == Wedges
    IN  \A q \in 1..Len(W) : \A ch \in 1..3 : InUnit(W[q].color[ch])

\* the configurations C3 calls invalid
InvalidConfiguration(c) ==
    \/ c.num_repeats = 0
    \/ (~IsFW(c) /\ c.element_order.some /\ c.element_order.val = <<>>)
    \/ (~IsFW(c) /\ c.color_mode \notin ColorModes)

\* C3: an invalid configuration (num_repeats = 0, an empty element sequence,
\* an unknown color_mode; nothing else wrong with the arguments) never gets
\* as far as creating the figure or drawing a patch, never completes, and
\* the error it ends with names the offending value and the accepted values.
C3_EagerInvalidConfiguration ==
    ( /\ InvalidConfiguration(cfg)
      /\ cfg.max_lum_cd_m2 # 0
      /\ err.type # "KeyError" ) =>
        /\ fig = FALSE
        /\ canvas = <<>>
        /\ pc # "done"
        /\ pc = "error" => (err.value # "" /\ err.accepted # {})

\* C7: with 0 < min_inner_radius < 1 the rotating snake draws its rings in
\* strictly descending outer radius and the centre circle after every wedge.
C7_OuterFirstThenFiller ==
    ( /\ cfg.variant = "rotating_snake"
      /\ QLt(QInt(0), cfg.min_inner_radius)
      /\ QLt(cfg.min_inner_radius, QInt(1)) ) =>
        /\ \A p, q \in 1..Len(canvas) :
             (p < q /\ canvas[p].kind = "wedge" /\ canvas[q].kind = "wedge"
                /\ canvas[p].ring # canvas[q].ring) =>
                 QLt(canvas[q].outer_radius, canvas[p].outer_radius)
        /\ \A p, q \in 1..Len(canvas) :
             (canvas[p].kind = "circle" /\ canvas[q].kind = "wedge") => q < p
        /\ pc = "done" => \E p \in 1..Len(canvas) : canvas[p].kind = "circle"

\* C8: in grayscale mode every level L of the luminance list, canonical or
\* supplied by the caller, resolves to the color (L, L, L).
C8_GrayscaleIdentity ==
    (cfg.variant = "rotating_snake" /\ cfg.color_mode = "grayscale"
       /\ pc # "start") =>
        /\ err.type # "KeyError"
        /\ color_sequence = [j \in 1..Len(luminance_levels(cfg)) |->
                                Gray(luminance_levels(cfg)[j])]

=============================================================================
